---- MODULE Spec2Model ----
(***************************************************************************)
(* Chainmail deformation of a 3-d voxel grid (src/deform.py).              *)
(*                                                                         *)
(* A voxel position is a tuple <<x, y, z>>; a row of a sponsor array or a  *)
(* neighbor list is a tuple <<x, y, z, k>> whose fourth slot holds a grid  *)
(* index or a direction code, as in the source.  Python indexes from 0:    *)
(* At(v, i) reads v[i] and Put(v, i, x) is the assignment v[i] = x, so the *)
(* indices written below are the ones of the source.  Coordinates, steps   *)
(* and stiffness are integers.                                             *)
(***************************************************************************)
EXTENDS Integers, Sequences, FiniteSets

\* ---------------------------------------------------------------- bounds
MaxN == 3
MaxStep == 2
MaxArea == 2
MaxStiff == 1
MaxDisp == 1
MaxCoord == 2
MaxOrderN == 2

VARIABLES
    original_cube,      \* deform's argument: the input grid, index -> position
    disp_src,           \* deform's argument: the source position
    disp_area,          \* deform's argument: the influence radius
    disp_vector,        \* deform's argument: the displacement vector
    voxel_spacing,      \* deform's argument: the lattice step
    stiffness_coef,     \* deform's argument: the stiffness
    pc,                 \* "start", "loop", "done" (returned), "error" (raised)
    exc,                \* the exception raised, "" when none
    original_sponsors,  \* the active queue of rows <<x, y, z, index>>
    sponsor_history,    \* the visited indices, in the order they were added
    new_matrix,         \* the output grid
    use_sponsor,        \* the active sponsor being expanded
    neighbors,          \* the neighbors of use_sponsor still to examine
    sponsor_region,     \* history: the array find_original_sponsors returned
    examined,           \* history: the indices handed to deform_neighbour
    committed,          \* history: the indices written during propagation
    call                \* a single call of a constraint function, with its result

vars == <<original_cube, disp_src, disp_area, disp_vector, voxel_spacing,
          stiffness_coef, pc, exc, original_sponsors, sponsor_history,
          new_matrix, use_sponsor, neighbors, sponsor_region, examined,
          committed, call>>

args == <<original_cube, disp_src, disp_area, disp_vector, voxel_spacing,
          stiffness_coef>>

run == <<pc, exc, original_sponsors, sponsor_history, new_matrix, use_sponsor,
         neighbors, sponsor_region, examined, committed>>

\* ------------------------------------------------- python / numpy helpers
At(v, i) == v[i + 1]

Put(v, i, x) == [v EXCEPT ![i + 1] = x]

\* v[:3]
Pos(v) == <<v[1], v[2], v[3]>>

\* a + b on arrays of three coordinates
VAdd(a, b) == <<a[1] + b[1], a[2] + b[2], a[3] + b[3]>>

VSub(a, b) == <<a[1] - b[1], a[2] - b[2], a[3] - b[3]>>

SetMin(S) == CHOOSE m \in S : \A k \in S : m <= k

Elems(s) == {s[i] : i \in 1..Len(s)}

\* matrix.shape[0]
Shape0(matrix) == Cardinality(DOMAIN matrix)

\* the input grids: the complete n x n x n lattice of spacing gs, x-major
Cube(n, gs) ==
    [i \in 0..(n * n * n - 1) |->
        <<(i \div (n * n)) * gs, ((i \div n) % n) * gs, (i % n) * gs>>]

\* ------------------------------------------------------------- find_index
\* np.where(np.all(matrix == voxel, axis=1))[0]
Where(voxel, matrix) == {i \in DOMAIN matrix : matrix[i] = voxel}

\* ...[0] of an empty result raises IndexError
find_index_raises(voxel, matrix) == Where(voxel, matrix) = {}

find_index(voxel, matrix) == SetMin(Where(voxel, matrix))

\* the IndexError of line 103 when no row of the matrix is the voxel
LookupFailed == "IndexError: index 0 is out of bounds for axis 0 with size 0"

\* the IndexError of indexing a 1-d array with [:, :3] (line 93)
TooManyIndices == "IndexError: too many indices for array"

\* --------------------------------------------------------- find_neighbors
\* np.power(n, 1 / 3) of a grid of n = k^3 voxels.  The float is k or one ulp
\* below it, and np.ceil of its product with the step is k * step for the
\* grids and steps used here.
CubeRoot(n) == CHOOSE k \in 0..n : k * k * k = n

\* side_length without the step: np.ceil(np.power(shape[0], 1 / 3))
SideLength_Unscaled(cube_matrix, step) == CubeRoot(Shape0(cube_matrix))

\* np.ceil of a product that np.power left above n * step
SideLength_RoundedUp(cube_matrix, step) ==
    CubeRoot(Shape0(cube_matrix)) * step + 1

\* line 293: side_length
SideLength(cube_matrix, step) == CubeRoot(Shape0(cube_matrix)) * step

\* The neighbors of the sponsor: right = 0, left = 1, top = 2, bottom = 3,
\* down = 4, up = 5.  find_index runs on every position that passes its bound
\* test, so one absent position raises IndexError for the whole call.
find_neighbors(sponsor, cube_matrix, sponsor_hist, step, surface_only) ==
    LET side_length == SideLength(cube_matrix, step)
        rn == <<At(sponsor, 0) + step, At(sponsor, 1), At(sponsor, 2), 0>>
        ln == <<At(sponsor, 0) - step, At(sponsor, 1), At(sponsor, 2), 1>>
        tn == <<At(sponsor, 0), At(sponsor, 1) + step, At(sponsor, 2), 2>>
        bn == <<At(sponsor, 0), At(sponsor, 1) - step, At(sponsor, 2), 3>>
        dn == <<At(sponsor, 0), At(sponsor, 1), At(sponsor, 2) - step, 4>>
        un == <<At(sponsor, 0), At(sponsor, 1), At(sponsor, 2) + step, 5>>
        looked ==
            (IF At(sponsor, 0) + step < side_length THEN <<rn>> ELSE <<>>)
            \o (IF At(sponsor, 0) - step >= 0 THEN <<ln>> ELSE <<>>)
            \o (IF At(sponsor, 1) + step < side_length THEN <<tn>> ELSE <<>>)
            \o (IF At(sponsor, 1) - step >= 0 THEN <<bn>> ELSE <<>>)
            \o (IF ~surface_only /\ At(sponsor, 2) - step >= 0
                THEN <<dn>> ELSE <<>>)
            \o (IF ~surface_only /\ At(sponsor, 2) + step < side_length
                THEN <<un>> ELSE <<>>)
        raises == \E i \in 1..Len(looked) :
                      find_index_raises(Pos(looked[i]), cube_matrix)
        NotInHist(c) == find_index(Pos(c), cube_matrix) \notin Elems(sponsor_hist)
    IN  IF raises
        THEN [exc |-> LookupFailed, val |-> <<>>]
        ELSE [exc |-> "", val |-> SelectSeq(looked, NotInHist)]

\* ------------------------------------------------- the constraint functions
\* The 0 a constraint function returns when it changed nothing; like 0 it is
\* false in `if use_neighbor:`.
NoChange == <<>>

\* Each function clamps the candidate in place, one coordinate per if/elif
\* block in the order of the source; a block reads and writes only its own
\* coordinate of the candidate, so c0, c1, c2 are the coordinates after the
\* three blocks.  `compare = candidate[:]` copies the list the caller passes.

\* Deforms the Right (in x) neighbor of the sponsor
deform_right(sponsor, candidate, step, stiff_coef) ==
    LET minimum == step - stiff_coef
        maximum == step + stiff_coef
        shear == stiff_coef
        compare == candidate
        c0 == IF At(candidate, 0) - At(sponsor, 0) < minimum THEN At(sponsor, 0) + minimum
              ELSE IF At(candidate, 0) - At(sponsor, 0) > maximum THEN At(sponsor, 1) + maximum
              ELSE At(candidate, 0)
        c1 == IF At(candidate, 1) - At(sponsor, 1) < -shear THEN At(sponsor, 1) - shear
              ELSE IF At(candidate, 1) - At(sponsor, 1) > shear THEN At(sponsor, 1) + shear
              ELSE At(candidate, 1)
        c2 == IF At(candidate, 2) - At(sponsor, 2) < -shear THEN At(sponsor, 2) - shear
              ELSE IF At(candidate, 2) - At(sponsor, 2) > shear THEN At(sponsor, 2) + shear
              ELSE At(candidate, 2)
        moved == <<c0, c1, c2, At(candidate, 3)>>
    IN  IF compare = moved THEN NoChange ELSE moved

\* Deforms the Left (in x) neighbor of the sponsor
deform_left(sponsor, candidate, step, stiff_coef) ==
    LET minimum == step - stiff_coef
        maximum == step + stiff_coef
        shear == stiff_coef
        compare == candidate
        c0 == IF At(candidate, 0) - At(sponsor, 0) < -maximum THEN At(sponsor, 0) - maximum
              ELSE IF At(candidate, 0) - At(sponsor, 0) > -minimum THEN At(sponsor, 1) - minimum
              ELSE At(candidate, 0)
        c1 == IF At(candidate, 1) - At(sponsor, 1) < -shear THEN At(sponsor, 1) + shear
              ELSE IF At(candidate, 1) - At(sponsor, 1) > shear THEN At(sponsor, 1) + shear
              ELSE At(candidate, 1)
        c2 == IF At(candidate, 2) - At(sponsor, 2) < -shear THEN At(sponsor, 2) - shear
              ELSE IF At(candidate, 2) - At(sponsor, 2) > shear THEN At(sponsor, 2) + shear
              ELSE At(candidate, 2)
        moved == <<c0, c1, c2, At(candidate, 3)>>
    IN  IF compare = moved THEN NoChange ELSE moved

\* Deforms the Top (in y) neighbor of the sponsor
deform_top(sponsor, candidate, step, shear) ==
    LET minimum == step - shear
        maximum == step + shear
        original == candidate
        c1 == IF At(candidate, 1) - At(sponsor, 1) < minimum THEN At(sponsor, 1) + minimum
              ELSE IF At(candidate, 1) - At(sponsor, 1) > maximum THEN At(sponsor, 1) + maximum
              ELSE At(candidate, 1)
        c0 == IF At(candidate, 0) - At(sponsor, 0) < -shear THEN At(sponsor, 0) + shear
              ELSE IF At(candidate, 0) - At(sponsor, 0) > shear THEN At(sponsor, 1) + shear
              ELSE At(candidate, 0)
        c2 == IF At(candidate, 2) - At(sponsor, 2) < -shear THEN At(sponsor, 2) - shear
              ELSE IF At(candidate, 2) - At(sponsor, 2) > shear THEN At(sponsor, 2) + shear
              ELSE At(candidate, 2)
        moved == <<c0, c1, c2, At(candidate, 3)>>
    IN  IF original = moved THEN NoChange ELSE moved

\* Deforms the Bottom (in y) neighbor of the sponsor
deform_lower(sponsor, candidate, step, shear) ==
    LET minimum == step - shear
        maximum == step + shear
        original == candidate
        c1 == IF At(candidate, 1) - At(sponsor, 1) > -minimum THEN At(sponsor, 1) - minimum
              ELSE IF At(candidate, 1) - At(sponsor, 1) < -maximum THEN At(sponsor, 1) - maximum
              ELSE At(candidate, 1)
        c0 == IF At(candidate, 0) - At(sponsor, 0) < -shear THEN At(sponsor, 0) + shear
              ELSE IF At(candidate, 0) - At(sponsor, 0) > shear THEN At(sponsor, 1) + shear
              ELSE At(candidate, 0)
        c2 == IF At(candidate, 2) - At(sponsor, 2) < -shear THEN At(sponsor, 2) - shear
              ELSE IF At(candidate, 2) - At(sponsor, 2) > shear THEN At(sponsor, 2) + shear
              ELSE At(candidate, 2)
        moved == <<c0, c1, c2, At(candidate, 3)>>
    IN  IF original = moved THEN NoChange ELSE moved

\* Deforms the DOWN (in z) neighbor of the sponsor
deform_down(sponsor, candidate, step, shear) ==
    LET minimum == step - shear
        maximum == step + shear
        original == candidate
        c2 == IF At(candidate, 2) - At(sponsor, 2) > -minimum THEN At(sponsor, 2) - minimum
              ELSE IF At(candidate, 2) - At(sponsor, 2) < -maximum THEN At(sponsor, 2) - maximum
              ELSE At(candidate, 2)
        c0 == IF At(candidate, 0) - At(sponsor, 0) < -shear THEN At(sponsor, 0) + shear
              ELSE IF At(candidate, 0) - At(sponsor, 0) > shear THEN At(sponsor, 0) + shear
              ELSE At(candidate, 0)
        c1 == IF At(candidate, 1) - At(sponsor, 1) < -shear THEN At(sponsor, 1) - shear
              ELSE IF At(candidate, 1) - At(sponsor, 1) > shear THEN At(sponsor, 1) + shear
              ELSE At(candidate, 1)
        moved == <<c0, c1, c2, At(candidate, 3)>>
    IN  IF original = moved THEN NoChange ELSE moved

\* Deforms the UP (in z) neighbor of the sponsor
deform_up(sponsor, candidate, step, shear) ==
    LET minimum == step - shear
        maximum == step + shear
        original == candidate
        c2 == IF At(candidate, 2) - At(sponsor, 2) > minimum THEN At(sponsor, 2) + minimum
              ELSE IF At(candidate, 2) - At(sponsor, 2) > maximum THEN At(sponsor, 2) + maximum
              ELSE At(candidate, 2)
        c0 == IF At(candidate, 0) - At(sponsor, 0) < -shear THEN At(sponsor, 0) + shear
              ELSE IF At(candidate, 0) - At(sponsor, 0) > shear THEN At(sponsor, 0) + shear
              ELSE At(candidate, 0)
        c1 == IF At(candidate, 1) - At(sponsor, 1) < -shear THEN At(sponsor, 1) - shear
              ELSE IF At(candidate, 1) - At(sponsor, 1) > shear THEN At(sponsor, 1) + shear
              ELSE At(candidate, 1)
        moved == <<c0, c1, c2, At(candidate, 3)>>
    IN  IF original = moved THEN NoChange ELSE moved
\* Selects the function from the direction code in neighbor[3]
deform_neighbour(sponsor, neighbor, step, shear) ==
    CASE At(neighbor, 3) = 0 -> deform_right(sponsor, neighbor, step, shear)
      [] At(neighbor, 3) = 1 -> deform_left(sponsor, neighbor, step, shear)
      [] At(neighbor, 3) = 2 -> deform_top(sponsor, neighbor, step, shear)
      [] At(neighbor, 3) = 3 -> deform_lower(sponsor, neighbor, step, shear)
      [] At(neighbor, 3) = 4 -> deform_down(sponsor, neighbor, step, shear)
      [] At(neighbor, 3) = 5 -> deform_up(sponsor, neighbor, step, shear)

\* ------------------------------------------------- find_original_sponsors
\* A numpy array of the builder is [ndim, data]: data is the row of a 1-d
\* array and the sequence of rows of a 2-d one.
\* np.asarray(list): an empty list gives a 1-d array of shape (0,)
np_asarray(list) == [ndim |-> IF list = <<>> THEN 1 ELSE 2, data |-> list]

\* np.append(arr, [values], axis=0) concatenates arr and the array made of
\* the list [values], one dimension above values; numpy raises ValueError
\* unless both have the same number of dimensions.
np_append_raises(arr, values) == arr.ndim # values.ndim + 1

np_append_axis0(arr, values) == [ndim |-> arr.ndim, data |-> arr.data \o <<values.data>>]

\* line 22 of deform, and the indices of a list of rows: column 3
LastColumn(rows) == [i \in 1..Len(rows) |-> At(rows[i], 3)]

\* lines 85-86: el[3] = find_index(el[:3], original_cube) for every row
IndexRows(storage_layer, cube) ==
    [i \in 1..Len(storage_layer) |->
        Put(storage_layer[i], 3, find_index(Pos(storage_layer[i]), cube))]

\* lines 78-87: the while loop over outside_layer.  storage_layer holds the
\* same row objects as neighbors, so the for loop rewrites slot 3 of every
\* row gathered so far and appends its index to the history once more.
\* LayerFound is the loop body once find_neighbors has answered `found`.
RECURSIVE LayerWhile(_, _, _, _, _)
RECURSIVE LayerFound(_, _, _, _, _, _)
LayerWhile(outside_layer, storage_layer, history, cube, step) ==
    IF outside_layer = <<>>
    THEN [exc |-> "", storage |-> storage_layer, hist |-> history]
    ELSE LayerFound(find_neighbors(cube[At(Head(outside_layer), 3)], cube,
                                   history, step, TRUE),
                    outside_layer, storage_layer, history, cube, step)

LayerFound(found, outside_layer, storage_layer, history, cube, step) ==
    IF found.exc # ""
    THEN [exc |-> found.exc, storage |-> <<>>, hist |-> <<>>]
    ELSE LayerWhile(Tail(outside_layer),
                    IndexRows(storage_layer \o found.val, cube),
                    history \o LastColumn(IndexRows(storage_layer \o found.val, cube)),
                    cube, step)

\* lines 76-90: for i in range(displacement_area).  ForLayer is the rest of
\* the loop body once the while loop has ended with `layer`.
RECURSIVE ForLayers(_, _, _, _, _, _, _)
RECURSIVE ForLayer(_, _, _, _, _, _)
ForLayers(i, displacement_area, sponsors, outside_layer, history, cube, step) ==
    IF i >= displacement_area
    THEN [exc |-> "", sponsors |-> sponsors]
    ELSE ForLayer(LayerWhile(outside_layer, <<>>, history, cube, step),
                  i, displacement_area, sponsors, cube, step)

ForLayer(layer, i, displacement_area, sponsors, cube, step) ==
    IF layer.exc # ""
    THEN [exc |-> layer.exc, sponsors |-> sponsors]
    ELSE IF np_append_raises(np_asarray(layer.storage), sponsors)
    THEN [exc |-> "ValueError", sponsors |-> sponsors]
    ELSE ForLayers(i + 1, displacement_area,
                   np_append_axis0(np_asarray(layer.storage), sponsors),
                   layer.storage, layer.hist, cube, step)

\* line 93: original_sponsors[:, :3] += displacement_vector
Translate(rows, displacement_vector) ==
    [i \in 1..Len(rows) |->
        VAdd(Pos(rows[i]), displacement_vector) \o <<At(rows[i], 3)>>]

\* lines 93-95: the translation raises IndexError on a 1-d array
Translated(built, displacement_vector) ==
    IF built.exc # ""
    THEN [exc |-> built.exc, val |-> <<>>]
    ELSE IF built.sponsors.ndim # 2
    THEN [exc |-> TooManyIndices, val |-> <<>>]
    ELSE [exc |-> "", val |-> Translate(built.sponsors.data, displacement_vector)]

\* lines 65-70: the 1-d array np.append(displacement_dst, sponsor_index)
FirstSponsor(displacement_dst, sponsor_index) ==
    [ndim |-> 1, data |-> displacement_dst \o <<sponsor_index>>]

\* Find all original sponsors, depending on the displacement area.  The
\* result is [exc, val]: the exception raised, or "" and the rows returned.
find_original_sponsors(displacement_dst, displacement_src, cube, step, displacement_area) ==
    IF find_index_raises(displacement_src, cube)
    THEN [exc |-> LookupFailed, val |-> <<>>]
    ELSE Translated(
             ForLayers(0, displacement_area,
                       FirstSponsor(displacement_dst, find_index(displacement_src, cube)),
                       <<FirstSponsor(displacement_dst,
                                      find_index(displacement_src, cube)).data>>,
                       <<find_index(displacement_src, cube)>>, cube, step),
             VSub(displacement_dst, displacement_src))

\* ------------------------------------------------------------------ deform
\* lines 28-29: for el in original_sponsors: new_matrix[el[3]] = el[:3]
RECURSIVE WriteSponsors(_, _)
WriteSponsors(matrix, rows) ==
    IF rows = <<>> THEN matrix
    ELSE WriteSponsors([matrix EXCEPT ![At(Head(rows), 3)] = Pos(Head(rows))],
                       Tail(rows))

\* line 43 lost: the examined neighbor is not added to the history
MarkVisited_Dropped(history, neighbor_position) == history

\* line 43: np.append(sponsor_history, neighbor_position)
MarkVisited(history, neighbor_position) == Append(history, neighbor_position)

\* line 49 left out: the row keeps the direction code in its last slot
SponsorRow_KeepsCode(use_neighbor, neighbor_position) == use_neighbor

\* lines 49-52: the committed neighbor, with its index in slot 3
SponsorRow(use_neighbor, neighbor_position) == Put(use_neighbor, 3, neighbor_position)

\* line 52 indexed by the direction code that slot 3 of the neighbor held
\* before line 49 replaced it
WriteNeighbor_DirectionSlot(matrix, neighbor_position, row) ==
    [matrix EXCEPT ![At(Head(neighbors), 3)] = Pos(row)]

\* line 52: new_matrix[neighbor_position] = np.array(use_neighbor[:3])
WriteNeighbor(matrix, neighbor_position, row) ==
    [matrix EXCEPT ![neighbor_position] = Pos(row)]

\* The requests: a complete lattice, a source in it or just outside it, a
\* radius from -1 up, an axis-aligned displacement, a step that is the
\* lattice's or is not positive.
Axes == {<<1, 0, 0>>, <<0, 1, 0>>, <<0, 0, 1>>}

Vectors == {<<0, 0, 0>>}
           \cup {<<k * a[1], k * a[2], k * a[3]>> :
                    k \in (-MaxDisp..MaxDisp) \ {0}, a \in Axes}

Positions(cube) == {cube[i] : i \in DOMAIN cube}

\* the requests on a lattice of at most maxn voxels a side
Requests(maxn) ==
    /\ \E n \in 1..maxn, gs \in 1..MaxStep :
          /\ original_cube = Cube(n, gs)
          /\ disp_src \in Positions(Cube(n, gs)) \cup {<<n * gs, 0, 0>>}
          /\ voxel_spacing \in {gs, 0, -1}
    /\ disp_area \in -1..MaxArea
    /\ disp_vector \in Vectors
    /\ stiffness_coef \in 0..MaxStiff

\* deform has been called and has not run
Idle ==
    /\ pc = "start"
    /\ exc = ""
    /\ original_sponsors = <<>>
    /\ sponsor_history = <<>>
    /\ new_matrix = <<>>
    /\ use_sponsor = <<>>
    /\ neighbors = <<>>
    /\ sponsor_region = <<>>
    /\ examined = <<>>
    /\ committed = {}

Init == Requests(MaxN) /\ Idle /\ call = <<>>

\* new_matrix = original_cube: the output is the input's own buffer
np_copy_Aliased(matrix) == [shared |-> TRUE, data |-> matrix]

\* line 25: np.copy gives the output a buffer of its own; `shared` says
\* whether a store into the result is a store into `matrix` as well
np_copy(matrix) == [shared |-> FALSE, data |-> matrix]

\* the array `matrix` as its holder reads it once the result of
\* np_copy(matrix) holds `written` (lines 29 and 52 store into new_matrix)
Seen(matrix, written) == IF np_copy(matrix).shared THEN written ELSE matrix

\* the arguments of deform that are not the grid
request == <<disp_src, disp_area, disp_vector, voxel_spacing, stiffness_coef>>

\* lines 16-29: build the sponsor region, copy the grid, write the sponsors
DeformStart ==
    /\ pc = "start"
    /\ \E built \in {find_original_sponsors(VAdd(disp_src, disp_vector), disp_src,
                                            original_cube, voxel_spacing,
                                            disp_area)} :
           IF built.exc # ""
           THEN /\ pc' = "error"
                /\ exc' = built.exc
                /\ UNCHANGED <<original_sponsors, sponsor_history, new_matrix,
                               sponsor_region, original_cube>>
           ELSE /\ pc' = "loop"
                /\ exc' = ""
                /\ original_sponsors' = built.val
                /\ sponsor_history' = LastColumn(built.val)
                /\ new_matrix' = WriteSponsors(np_copy(original_cube).data,
                                               built.val)
                /\ original_cube' = Seen(original_cube, new_matrix')
                /\ sponsor_region' = built.val
    /\ UNCHANGED <<request, use_sponsor, neighbors, examined, committed, call>>

\* lines 32-38: take the first active sponsor and list its neighbors
PopSponsor ==
    /\ pc = "loop"
    /\ neighbors = <<>>
    /\ original_sponsors # <<>>
    /\ LET sponsor_index == At(Head(original_sponsors), 3)
           sponsor == original_cube[sponsor_index]
           found == find_neighbors(sponsor, original_cube, sponsor_history,
                                   voxel_spacing, FALSE)
       IN  /\ use_sponsor' = Head(original_sponsors)
           /\ original_sponsors' = Tail(original_sponsors)
           /\ IF found.exc # ""
              THEN pc' = "error" /\ exc' = found.exc /\ neighbors' = <<>>
              ELSE pc' = "loop" /\ exc' = "" /\ neighbors' = found.val
    /\ UNCHANGED <<args, sponsor_history, new_matrix, sponsor_region, examined,
                   committed, call>>

\* lines 40-52: examine the next neighbor of the active sponsor
ExamineNeighbor ==
    /\ pc = "loop"
    /\ neighbors # <<>>
    /\ LET use_neighbor == Head(neighbors)
           neighbor_position == find_index(Pos(use_neighbor), original_cube)
           deformed == deform_neighbour(use_sponsor, use_neighbor, voxel_spacing,
                                        stiffness_coef)
           row == SponsorRow(deformed, neighbor_position)
       IN  /\ neighbors' = Tail(neighbors)
           /\ sponsor_history' = MarkVisited(sponsor_history, neighbor_position)
           /\ examined' = Append(examined, neighbor_position)
           /\ IF deformed # NoChange
              THEN /\ original_sponsors' = Append(original_sponsors, row)
                   /\ new_matrix' = WriteNeighbor(new_matrix, neighbor_position, row)
                   /\ original_cube' = Seen(original_cube, new_matrix')
                   /\ committed' = committed \cup {neighbor_position}
              ELSE UNCHANGED <<original_sponsors, new_matrix, committed,
                               original_cube>>
    /\ UNCHANGED <<request, pc, exc, use_sponsor, sponsor_region, call>>

\* line 54: the queue is empty, return new_matrix
Return ==
    /\ pc = "loop"
    /\ neighbors = <<>>
    /\ original_sponsors = <<>>
    /\ pc' = "done"
    /\ UNCHANGED <<args, exc, original_sponsors, sponsor_history, new_matrix,
                   use_sponsor, neighbors, sponsor_region, examined, committed,
                   call>>

Next == DeformStart \/ PopSponsor \/ ExamineNeighbor \/ Return

Spec == Init /\ [][Next]_vars

\* --------------------------------- the constraint functions, called alone
\* One call of one constraint function: the sponsor is a row <<x, y, z, index>>
\* of displaced coordinates, the candidate a row <<x, y, z, code>> as
\* find_neighbors builds it, and deform_neighbour dispatches on the code.
Coords == 0..MaxCoord

Points == {<<x, y, z>> : x \in Coords, y \in Coords, z \in Coords}

InitConstraint ==
    /\ \E s \in Points, c \in Points, st \in 1..MaxStep, k \in 0..MaxStiff :
          call = [fn |-> "", sponsor |-> s \o <<0>>, candidate |-> c,
                  step |-> st, stiff |-> k, result |-> NoChange]
    /\ original_cube = <<>>
    /\ disp_src = <<>>
    /\ disp_area = 0
    /\ disp_vector = <<>>
    /\ voxel_spacing = 0
    /\ stiffness_coef = 0
    /\ pc = "constraint"
    /\ exc = ""
    /\ original_sponsors = <<>>
    /\ sponsor_history = <<>>
    /\ new_matrix = <<>>
    /\ use_sponsor = <<>>
    /\ neighbors = <<>>
    /\ sponsor_region = <<>>
    /\ examined = <<>>
    /\ committed = {}

CallConstraint(name, code) ==
    /\ call.fn = ""
    /\ call' = [call EXCEPT
                  !.fn = name,
                  !.candidate = call.candidate \o <<code>>,
                  !.result = deform_neighbour(call.sponsor,
                                              call.candidate \o <<code>>,
                                              call.step, call.stiff)]
    /\ UNCHANGED <<args, run>>

CallRight == CallConstraint("deform_right", 0)

CallLeft == CallConstraint("deform_left", 1)

CallTop == CallConstraint("deform_top", 2)

CallLower == CallConstraint("deform_lower", 3)

CallDown == CallConstraint("deform_down", 4)

CallUp == CallConstraint("deform_up", 5)

NextConstraint ==
    CallRight \/ CallLeft \/ CallTop \/ CallLower \/ CallDown \/ CallUp

SpecConstraint == InitConstraint /\ [][NextConstraint]_vars

\* ------------------------------------ the Active Queue taken in any order
\* deform takes original_sponsors[0] (lines 33-34).  Here any entry of the
\* queue may be taken, the rest of the loop being the same: every neighbor is
\* still claimed by the first sponsor that examines it.  `call` counts the
\* sponsors that were taken from behind the head of the queue.
\* np.delete(original_sponsors, -1, axis=0): the last entry leaves the queue
Without_Last(s, k) == SubSeq(s, 1, Len(s) - 1)

\* line 34 for the entry taken: np.delete(original_sponsors, k, axis=0)
Without(s, k) == SubSeq(s, 1, k - 1) \o SubSeq(s, k + 1, Len(s))

InitAnyOrder == Requests(MaxOrderN) /\ Idle /\ call = [reordered |-> 0]

PopAnySponsor ==
    /\ pc = "loop"
    /\ neighbors = <<>>
    /\ original_sponsors # <<>>
    /\ \E k \in 1..Len(original_sponsors) :
          \E found \in {find_neighbors(
                            original_cube[At(original_sponsors[k], 3)],
                            original_cube, sponsor_history, voxel_spacing,
                            FALSE)} :
              /\ use_sponsor' = original_sponsors[k]
              /\ original_sponsors' = Without(original_sponsors, k)
              /\ call' = [reordered |-> call.reordered + (IF k = 1 THEN 0 ELSE 1)]
              /\ IF found.exc # ""
                 THEN pc' = "error" /\ exc' = found.exc /\ neighbors' = <<>>
                 ELSE pc' = "loop" /\ exc' = "" /\ neighbors' = found.val
    /\ UNCHANGED <<args, sponsor_history, new_matrix, sponsor_region, examined,
                   committed>>

NextAnyOrder == DeformStart \/ PopAnySponsor \/ ExamineNeighbor \/ Return

SpecAnyOrder == InitAnyOrder /\ [][NextAnyOrder]_vars

\* lines 32-52 run to the end in the order of the code: the grid deform
\* returns from the queue, the history and the output grid it has at line 32
RECURSIVE Propagate(_, _, _)
RECURSIVE Examine(_, _, _, _, _)
RECURSIVE Decide(_, _, _, _, _, _, _)
Propagate(queue, history, matrix) ==
    IF queue = <<>>
    THEN matrix
    ELSE Examine(Head(queue),
                 find_neighbors(original_cube[At(Head(queue), 3)], original_cube,
                                history, voxel_spacing, FALSE).val,
                 Tail(queue), history, matrix)

Examine(sponsor, nbs, queue, history, matrix) ==
    IF nbs = <<>>
    THEN Propagate(queue, history, matrix)
    ELSE Decide(sponsor, nbs, queue, history, matrix,
                find_index(Pos(Head(nbs)), original_cube),
                deform_neighbour(sponsor, Head(nbs), voxel_spacing,
                                 stiffness_coef))

Decide(sponsor, nbs, queue, history, matrix, neighbor_position, deformed) ==
    IF deformed = NoChange
    THEN Examine(sponsor, Tail(nbs), queue,
                 MarkVisited(history, neighbor_position), matrix)
    ELSE Examine(sponsor, Tail(nbs),
                 Append(queue, SponsorRow(deformed, neighbor_position)),
                 MarkVisited(history, neighbor_position),
                 WriteNeighbor(matrix, neighbor_position,
                               SponsorRow(deformed, neighbor_position)))

\* the grid the call returns in the order of the code
Fifo ==
    Propagate(sponsor_region, LastColumn(sponsor_region),
              WriteSponsors(original_cube, sponsor_region))

\* --------------------------------------------- find_neighbors, called alone
\* One call of find_neighbors on a lattice: the sponsor is a row of the grid
\* (lines 37 and 80 pass original_cube[index]), the history holds the
\* sponsor's index and the indices of some of its lattice neighbors, the step
\* is any integer from -1 up and need not be the spacing of the lattice.
\* the axis a direction code moves along and the sign it moves with
CodeAxis(code) == IF code \in {0, 1} THEN 0 ELSE IF code \in {2, 3} THEN 1 ELSE 2

CodeSign(code) == IF code \in {0, 2, 5} THEN 1 ELSE -1

\* the position d away from p in the direction of the code
Toward(p, code, d) ==
    Put(p, CodeAxis(code), At(p, CodeAxis(code)) + CodeSign(code) * d)

RECURSIVE SetToSeq(_)
SetToSeq(S) ==
    IF S = {} THEN <<>> ELSE <<SetMin(S)>> \o SetToSeq(S \ {SetMin(S)})

\* the indices of p and of its lattice neighbors in the directions of D
Around(cube, p, gs, D) ==
    {i \in DOMAIN cube : cube[i] = p \/ \E c \in D : cube[i] = Toward(p, c, gs)}

InitNeighbors ==
    /\ \E n \in 1..MaxN, gs \in 1..MaxStep :
          /\ original_cube = Cube(n, gs)
          /\ \E p \in Positions(Cube(n, gs)), D \in SUBSET (0..5),
                st \in -1..MaxStep, so \in BOOLEAN :
                call = [fn |-> "", sponsor |-> p,
                        sponsor_hist |-> SetToSeq(Around(Cube(n, gs), p, gs, D)),
                        step |-> st, surface_only |-> so,
                        result |-> [exc |-> "", val |-> <<>>]]
    /\ pc = "neighbors"
    /\ exc = ""
    /\ disp_src = <<0, 0, 0>>
    /\ disp_area = 0
    /\ disp_vector = <<0, 0, 0>>
    /\ voxel_spacing = 0
    /\ stiffness_coef = 0
    /\ original_sponsors = <<>>
    /\ sponsor_history = <<>>
    /\ new_matrix = <<>>
    /\ use_sponsor = <<>>
    /\ neighbors = <<>>
    /\ sponsor_region = <<>>
    /\ examined = <<>>
    /\ committed = {}

CallFindNeighbors ==
    /\ pc = "neighbors"
    /\ call.fn = ""
    /\ call' = [call EXCEPT
                  !.fn = "find_neighbors",
                  !.result = find_neighbors(call.sponsor, original_cube,
                                            call.sponsor_hist, call.step,
                                            call.surface_only)]
    /\ UNCHANGED <<args, run>>

NextNeighbors == CallFindNeighbors

SpecNeighbors == InitNeighbors /\ [][NextNeighbors]_vars

\* ------------------------------------------------------------- the claims
SourceInGrid == ~find_index_raises(disp_src, original_cube)

\* a request the interface allows: the source is a voxel of the grid, the
\* radius is not negative, the spacing is positive
ValidRequest == SourceInGrid /\ disp_area >= 0 /\ voxel_spacing > 0

Malformed == ~SourceInGrid \/ disp_area < 0 \/ voxel_spacing <= 0

RegionIndices == Elems(LastColumn(sponsor_region))

NoDuplicates(s) == \A i, j \in 1..Len(s) : s[i] = s[j] => i = j

\* C1: with displacement_vector = (0, 0, 0) deform commits no voxel during
\* propagation and the grid it returns equals the input grid at every index.
C1_ZeroDisplacementIsIdentity ==
    (ValidRequest /\ disp_vector = <<0, 0, 0>>)
        => /\ committed = {}
           /\ pc = "done" => new_matrix = original_cube

\* C2: every row of the array find_original_sponsors returns, the source's
\* included, holds the original position at its index plus the displacement
\* vector.
C2_RigidTranslation ==
    \A i \in 1..Len(sponsor_region) :
        Pos(sponsor_region[i])
            = VAdd(original_cube[At(sponsor_region[i], 3)], disp_vector)

\* the direction of a constraint function: its primary axis and its sign
Axis(fn) ==
    CASE fn \in {"deform_right", "deform_left"} -> 0
      [] fn \in {"deform_top", "deform_lower"} -> 1
      [] fn \in {"deform_down", "deform_up"} -> 2

Sign(fn) == IF fn \in {"deform_right", "deform_top", "deform_up"} THEN 1 ELSE -1

\* the candidate as the call left it
After == IF call.result = NoChange THEN call.candidate ELSE call.result

Offset(v, a) == At(v, a) - At(call.sponsor, a)

Clamp(x, lo, hi) == IF x < lo THEN lo ELSE IF x > hi THEN hi ELSE x

\* C3: after each of the six constraint functions the candidate's offset from
\* the sponsor along the primary axis, signed in the direction, is in
\* [step - stiffness, step + stiffness]: an offset below the range has become
\* the lower bound, one above it the upper bound, measured from the sponsor's
\* coordinate on that axis.
C3_PrimaryClamp ==
    (pc = "constraint" /\ call.fn # "")
        => Sign(call.fn) * Offset(After, Axis(call.fn))
               = Clamp(Sign(call.fn) * Offset(call.candidate, Axis(call.fn)),
                       call.step - call.stiff, call.step + call.stiff)

\* C4: after each of the six constraint functions the candidate's offset from
\* the sponsor on each of the two perpendicular axes is in
\* [-stiffness, +stiffness]: an offset below has become -stiffness, one above
\* +stiffness, and one in the range is unchanged.
C4_ShearClamp ==
    (pc = "constraint" /\ call.fn # "")
        => \A a \in {0, 1, 2} \ {Axis(call.fn)} :
               Offset(After, a)
                   = Clamp(Offset(call.candidate, a), -call.stiff, call.stiff)

IsPrefix(s, t) == Len(s) <= Len(t) /\ SubSeq(t, 1, Len(s)) = s

\* C5: during one deform call sponsor_history only grows, the index handed to
\* a constraint function is never one that is already in sponsor_history, and
\* no index is handed to a constraint function twice.
C5_VisitOnce ==
    /\ [][IsPrefix(sponsor_history, sponsor_history')]_vars
    /\ [][examined' # examined
            => examined'[Len(examined')] \notin Elems(sponsor_history)]_vars
    /\ [](NoDuplicates(examined) /\ Elems(examined) \cap RegionIndices = {})

\* two voxels one lattice step apart
Adjacent(i, j) ==
    LET d == VSub(original_cube[i], original_cube[j])
        Abs(x) == IF x < 0 THEN -x ELSE x
    IN  Abs(d[1]) + Abs(d[2]) + Abs(d[3]) = voxel_spacing

\* deform has returned, and a voxel examined during propagation is the lattice
\* neighbor of two voxels that were active sponsors
C5_Witness ==
    /\ pc = "done"
    /\ \E k \in Elems(examined) :
          Cardinality({j \in RegionIndices \cup committed : Adjacent(j, k)}) >= 2

\* C6: in the grid deform returns, every index that is neither in the sponsor
\* region nor was committed during propagation holds its input position.
C6_Frame ==
    pc = "done"
        => \A i \in DOMAIN original_cube :
               i \notin RegionIndices \cup committed
                   => new_matrix[i] = original_cube[i]

\* deform has returned a grid with a committed voxel, a voxel that was
\* examined and got NoChange, and a voxel that was never reached
C6_Witness ==
    /\ pc = "done"
    /\ committed # {}
    /\ Elems(examined) \ committed # {}
    /\ DOMAIN original_cube \ (RegionIndices \cup Elems(examined)) # {}

\* deform has a next step to take: at "start" DeformStart is enabled, at "loop"
\* one of ExamineNeighbor, PopSponsor and Return is
Running == pc \in {"start", "loop"}

\* C7: for a valid request the propagation loop ends and deform returns: the
\* call stops nowhere but at its return.
C7_Terminates == ValidRequest => (Running \/ pc = "done")

\* C8: with influence_radius = 0 deform completes normally and its sponsor
\* region is the single row of the source, displaced by the vector.
C8_ZeroRadius ==
    (ValidRequest /\ disp_area = 0 /\ pc # "start")
        => /\ pc # "error"
           /\ sponsor_region
                  = <<VAdd(disp_src, disp_vector)
                        \o <<find_index(disp_src, original_cube)>> >>

\* C9: a malformed request (source not in the grid, negative radius, spacing
\* zero or negative) ends in an error, before any traversal and without a
\* grid being made or returned.
C9_Rejected ==
    Malformed
        => /\ pc \in {"start", "error"}
           /\ sponsor_history = <<>>
           /\ new_matrix = <<>>

\* the 3 x 3 x 3 grid of unit spacing, source at the center, radius 0,
\* displacement (1, 0, 0), stiffness 0
Scenario ==
    /\ original_cube = Cube(3, 1)
    /\ disp_src = <<1, 1, 1>>
    /\ disp_area = 0
    /\ disp_vector = <<1, 0, 0>>
    /\ voxel_spacing = 1
    /\ stiffness_coef = 0

\* the number of lattice steps between the voxel at index i and position p
Steps(i, p) ==
    LET d == VSub(original_cube[i], p)
        Abs(x) == IF x < 0 THEN -x ELSE x
    IN  Abs(d[1]) + Abs(d[2]) + Abs(d[3])

\* C10: in the scenario deform returns a grid in which the center voxel is
\* moved by (1, 0, 0) and every voxel two or more lattice steps from the
\* center holds its input position.
C10_Scenario ==
    (Scenario /\ pc \in {"done", "error"})
        => /\ pc = "done"
           /\ new_matrix[find_index(disp_src, original_cube)] = <<2, 1, 1>>
           /\ \A i \in DOMAIN original_cube :
                  Steps(i, disp_src) >= 2 => new_matrix[i] = original_cube[i]

\* the candidate as one call with the same sponsor, candidate and step but
\* stiffness k leaves it
AfterWith(k) ==
    LET r == deform_neighbour(call.sponsor, call.candidate, call.step, k)
    IN  IF r = NoChange THEN call.candidate ELSE r

Abs(x) == IF x < 0 THEN -x ELSE x

\* the deviation on axis a of the constrained candidate v from its rest
\* offset to the sponsor: the step along the primary axis, 0 across it
Deviation(v, a) ==
    IF a = Axis(call.fn)
    THEN Abs(Sign(call.fn) * Offset(v, a) - call.step)
    ELSE Abs(Offset(v, a))

\* C11: for a fixed sponsor, candidate, direction and step and stiffness
\* values s1 <= s2, the deviation of the constrained candidate from its rest
\* offset, on each axis, is not smaller under s2 than under s1.
C11_StiffnessMonotone ==
    (pc = "constraint" /\ call.fn # "")
        => \A s1 \in 0..MaxStiff, s2 \in 0..MaxStiff, a \in {0, 1, 2} :
               s1 <= s2
                   => Deviation(AfterWith(s1), a) <= Deviation(AfterWith(s2), a)

\* C12: the grid deform returns has as many voxels as the input grid, in the
\* same index order, and no step of the call changes the input grid at any
\* index: every store goes to the copy.
C12_InputUntouched ==
    /\ [][original_cube' = original_cube]_vars
    /\ [](pc \in {"loop", "done"}
              => /\ DOMAIN new_matrix = DOMAIN original_cube
                 /\ \A i \in DOMAIN new_matrix :
                        i \notin (committed \cup RegionIndices)
                            => new_matrix[i] = original_cube[i])

\* deform has returned a grid that differs from the input at a sponsor and at
\* a committed neighbor
C12_Witness ==
    /\ pc = "done"
    /\ committed # {}
    /\ \E i \in committed : new_matrix[i] # original_cube[i]
    /\ \E i \in RegionIndices : new_matrix[i] # original_cube[i]

\* the neighbor row nb, at its original position, breaks the constraint of its
\* direction relative to the displaced sponsor row sp
Violates(sp, nb, step, stiff) ==
    \E a \in {0, 1, 2} :
        LET d == At(nb, a) - At(sp, a)
        IN  IF a = CodeAxis(At(nb, 3))
            THEN \/ CodeSign(At(nb, 3)) * d < step - stiff
                 \/ CodeSign(At(nb, 3)) * d > step + stiff
            ELSE d < -stiff \/ d > stiff

\* C13: during propagation the examined neighbor is committed (written to the
\* output grid and enqueued) if and only if its original position violates its
\* direction's constraint relative to the sponsor's displaced position; a
\* neighbor that satisfies it is marked visited and neither written nor
\* enqueued.
C13_CommitIffViolates ==
    [][(ValidRequest /\ pc = "loop" /\ neighbors # <<>>)
           => LET nb == Head(neighbors)
                  idx == find_index(Pos(nb), original_cube)
                  bad == Violates(use_sponsor, nb, voxel_spacing, stiffness_coef)
              IN  /\ idx \in Elems(sponsor_history')
                  /\ bad <=> (idx \in committed')
                  /\ bad => /\ Len(original_sponsors') = Len(original_sponsors) + 1
                            /\ At(original_sponsors'[Len(original_sponsors')], 3) = idx
                  /\ ~bad => UNCHANGED <<new_matrix, original_sponsors>>]_vars

\* the row v reflected in the plane through the origin across axis a
Mirror(v, a) == Put(v, a, -At(v, a))

\* the positive-direction function of the axis of a negative-direction one
Positive(fn, sponsor, candidate, step, stiff) ==
    CASE fn = "deform_left"  -> deform_right(sponsor, candidate, step, stiff)
      [] fn = "deform_lower" -> deform_top(sponsor, candidate, step, stiff)
      [] fn = "deform_down"  -> deform_up(sponsor, candidate, step, stiff)

\* two results are the same position, or both 'no change'
SameResult(u, v) ==
    IF u = NoChange \/ v = NoChange THEN u = v ELSE Pos(u) = Pos(v)

\* C14: for each axis the negative-direction function is the mirror image of
\* the positive-direction one: reflecting sponsor and candidate across the
\* axis, applying the positive-direction function and reflecting back gives
\* the result of the negative-direction function (same position, or both
\* 'no change').
C14_MirrorSymmetry ==
    (pc = "constraint" /\ call.fn \in {"deform_left", "deform_lower", "deform_down"})
        => LET a == Axis(call.fn)
               r == Positive(call.fn, Mirror(call.sponsor, a),
                             Mirror(call.candidate, a), call.step, call.stiff)
           IN  SameResult(IF r = NoChange THEN NoChange ELSE Mirror(r, a),
                          call.result)

Ball(src, r) ==
    {i \in DOMAIN original_cube :
        /\ At(original_cube[i], 2) = At(src, 2)
        /\ Abs(At(original_cube[i], 0) - At(src, 0))
             + Abs(At(original_cube[i], 1) - At(src, 1)) <= r * voxel_spacing}

\* C16: for every influence radius r >= 0 the sponsor region that
\* find_original_sponsors builds holds each voxel index at most once and is
\* exactly the set of voxels of the source's z-plane within lattice Manhattan
\* distance r of the source.
C16_RegionIsBall ==
    (ValidRequest /\ pc # "start")
        => /\ pc # "error"
           /\ NoDuplicates(LastColumn(sponsor_region))
           /\ RegionIndices = Ball(disp_src, disp_area)

\* the direction codes find_neighbors may return, in increasing order
Codes(surface_only) ==
    IF surface_only THEN <<0, 1, 2, 3>> ELSE <<0, 1, 2, 3, 4, 5>>

\* the position at distance step of the call's sponsor in direction c lies in
\* [0, side_length) on the moved axis and its index is not in the history
IsNeighbor(c) ==
    LET q == Toward(call.sponsor, c, call.step)
    IN  /\ 0 <= At(q, CodeAxis(c))
        /\ At(q, CodeAxis(c)) < CubeRoot(Shape0(original_cube)) * call.step
        /\ \E i \in DOMAIN original_cube :
               original_cube[i] = q /\ i \notin Elems(call.sponsor_hist)

TaggedNeighbor(c) == Toward(call.sponsor, c, call.step) \o <<c>>

\* C17: find_neighbors returns exactly the axis-aligned positions at distance
\* step from the sponsor that lie inside [0, side_length) on the moved axis
\* and whose index is not in the history, each tagged with its direction code
\* (0=+x, 1=-x, 2=+y, 3=-y, 4=-z, 5=+z), in increasing code order, and no +/-z
\* entry when surface_only is true.  The distance is a step > 0 and the
\* property is about the calls that return; with a step of -1 the bound
\* [0, side_length) is empty and the positions returned lie outside it.
C17_ExactNeighbors ==
    (pc = "neighbors" /\ call.fn = "find_neighbors" /\ call.step > 0
       /\ call.result.exc = "")
        => LET sel == SelectSeq(Codes(call.surface_only), IsNeighbor)
           IN  call.result.val = [k \in 1..Len(sel) |-> TaggedNeighbor(sel[k])]

\* a surface-only call on a lattice with a z neighbor that returned two
\* neighbors, one lattice neighbor being left out for its index in the history
C17_Witness ==
    /\ pc = "neighbors"
    /\ call.fn = "find_neighbors"
    /\ call.step > 1
    /\ call.result.exc = ""
    /\ call.surface_only
    /\ Len(call.result.val) = 2
    /\ Len(call.sponsor_hist) = 2
    /\ \E i \in DOMAIN original_cube :
           original_cube[i] = Toward(call.sponsor, 5, call.step)

\* the indices the output grid has been written at
Written == RegionIndices \cup committed

\* C18: a position written to the output grid is final: an index that has
\* been written, for a sponsor at initialisation or for a committed neighbor,
\* is never written again, so for every entry (position, index) of the Active
\* Queue the output grid at index is position, from the step that enqueued it
\* until deform returns.
C18_WrittenIsFinal ==
    /\ [][pc = "loop" => \A i \in Written : new_matrix'[i] = new_matrix[i]]_vars
    /\ [](pc \in {"loop", "done"}
              => \A k \in 1..Len(original_sponsors) :
                     new_matrix[At(original_sponsors[k], 3)]
                         = Pos(original_sponsors[k]))

\* the queue holds the entry of a committed neighbor, away from its original
\* position, and another neighbor has been committed since
C18_Witness ==
    /\ pc = "loop"
    /\ Cardinality(committed) >= 2
    /\ \E k \in 1..Len(original_sponsors) :
           /\ At(original_sponsors[k], 3) \in committed
           /\ k < Len(original_sponsors)
           /\ Pos(original_sponsors[k])
                  # original_cube[At(original_sponsors[k], 3)]

\* the grid is a complete lattice of spacing step > 0 holding the source:
\* the grids of the model are lattices and the step is their spacing or is
\* not positive
OnLattice == voxel_spacing > 0 /\ SourceInGrid

====
